---- MODULE Spec2Model ----
(***************************************************************************)
(* GNUploader (src/uploader.py): import of a GTFS archive into a Neo4j    *)
(* graph through py2neo.  One run is: construction of the uploader        *)
(* (extract, validate, connect), then execute(): schema declarations,     *)
(* the five importers and the stop_times sequence linker.                  *)
(*                                                                         *)
(* A CSV cell is a sequence of one-character strings (<<"R","1">> is the  *)
(* cell R1, <<>> the empty cell), so that int(), float() and bool() are   *)
(* computed on the text.  A header cell is a sequence of pieces, the      *)
(* byte order mark being one piece.  A file is a sequence of CSV records, *)
(* the header record first.  Python's 0-based column indices are the      *)
(* 1-based indices of the sequences here.                                  *)
(*                                                                         *)
(* The graph store is a sequence of nodes (a node's identity is its       *)
(* position) and a sequence of edges (a multigraph), plus the number of   *)
(* schema objects that exist for each of the seven declarations.           *)
(***************************************************************************)
EXTENDS Integers, Sequences, FiniteSets, TLC

VARIABLES
    pc,              \* position of the process
    exc,             \* the exception or exit that ended the process
    env,             \* what construction found: archive, files, connection
    files,           \* the content of the extracted tables, once opened
    opened,          \* tables whose file has been opened
    pos,             \* CSV records consumed from the open csv_reader
    column_indices,  \* column name -> index of the open table
    decl,            \* next schema declaration (1..7)
    issued,          \* declarations sent to the store by this run
    schema,          \* store: schema objects existing per declaration
    nodes,           \* store: nodes
    edges,           \* store: edges
    base,            \* store size when the run started
    node_ctr,        \* self.node_ctr
    relationship_ctr,\* self.relationship_ctr
    log,             \* diagnostics printed by the run
    run              \* 1 in the first process, 2 in one started after it

vars == <<pc, exc, env, files, opened, pos, column_indices, decl, issued,
          schema, nodes, edges, base, node_ctr, relationship_ctr, log, run>>

-----------------------------------------------------------------------------
(* Bounds of the model: data rows per table.                               *)

MaxAgencyRows == 2
MaxRouteRows == 1
MaxTripRows == 1
MaxStopRows == 2
MaxStopTimeRows == 2

SeqsUpTo(S, n) == UNION {[1..k -> S] : k \in 0..n}

-----------------------------------------------------------------------------
(* Property values as py2neo stores them: a typed scalar.                  *)

IntVal(n) == [t |-> "int", n |-> n, s |-> <<>>]
StrVal(c) == [t |-> "str", n |-> 0, s |-> c]
FloatVal(n) == [t |-> "float", n |-> n, s |-> <<>>]
BoolVal(b) == [t |-> "bool", n |-> IF b THEN 1 ELSE 0, s |-> <<>>]

DigitVal ==
    [c \in {"0", "1", "2", "3", "4", "5", "6", "7", "8", "9"} |->
        CASE c = "0" -> 0 [] c = "1" -> 1 [] c = "2" -> 2 [] c = "3" -> 3
          [] c = "4" -> 4 [] c = "5" -> 5 [] c = "6" -> 6 [] c = "7" -> 7
          [] c = "8" -> 8 [] c = "9" -> 9]

IsDigits(c) == c # <<>> /\ \A i \in 1..Len(c) : c[i] \in DOMAIN DigitVal

RECURSIVE DigitsValue(_)
DigitsValue(c) ==
    IF c = <<>> THEN 0
    ELSE 10 * DigitsValue(SubSeq(c, 1, Len(c) - 1)) + DigitVal[c[Len(c)]]

(* read_type(cell): str() and bool() accept every text, int() and float()  *)
(* raise ValueError on a text that is no number.  The cells of the model   *)
(* are made of digits and letters only (no sign, blank, dot or exponent),  *)
(* where int() and float() accept exactly the non-empty digit strings.     *)
Convert(read_type, cell) ==
    CASE read_type = "str" -> [ok |-> TRUE, val |-> StrVal(cell)]
      [] read_type = "bool" -> [ok |-> TRUE, val |-> BoolVal(cell # <<>>)]
      [] read_type = "int" ->
            IF IsDigits(cell) THEN [ok |-> TRUE, val |-> IntVal(DigitsValue(cell))]
            ELSE [ok |-> FALSE, val |-> StrVal(cell)]
      [] read_type = "float" ->
            IF IsDigits(cell) THEN [ok |-> TRUE, val |-> FloatVal(DigitsValue(cell))]
            ELSE [ok |-> FALSE, val |-> StrVal(cell)]

(* row[column_indices[key]]: KeyError when the key is no column of the     *)
(* header, IndexError when the row is shorter than the column's index.     *)
Subscript(row, ci, key) ==
    LET k == <<key>>   \* the key's text, as a header cell of one piece
    IN  IF k \notin DOMAIN ci THEN [raised |-> "KeyError", cell |-> <<>>]
        ELSE IF ci[k] > Len(row) THEN [raised |-> "IndexError", cell |-> <<>>]
        ELSE [raised |-> "none", cell |-> row[ci[k]]]

(* get_data: only ValueError is handled.  The handler reads the cell       *)
(* again and returns it as text; its own ValueError handler, the one that  *)
(* returns "0", guards str() of a cell.                                    *)
get_data(row, ci, key, read_type) ==
    LET a == Subscript(row, ci, key)
    IN  IF a.raised # "none" THEN [raised |-> a.raised, val |-> StrVal(<<>>)]
        ELSE LET c == Convert(read_type, a.cell)
             IN  IF c.ok THEN [raised |-> "none", val |-> c.val]
                 ELSE LET b == Subscript(row, ci, key)
                          sc == Convert("str", b.cell)
                      IN  IF b.raised # "none"
                          THEN [raised |-> b.raised, val |-> StrVal(<<>>)]
                          ELSE IF sc.ok THEN [raised |-> "none", val |-> sc.val]
                          ELSE [raised |-> "none", val |-> StrVal(<<"0">>)]

(* The get_data calls of one row, in the order of the code: the values by  *)
(* key, or the first exception raised.  fields is a sequence of            *)
(* <<key, read_type>>.                                                     *)
Decode(row, ci, fields) ==
    LET r(i) == get_data(row, ci, fields[i][1], fields[i][2])
        bad == {i \in 1..Len(fields) : r(i).raised # "none"}
        first == CHOOSE i \in bad : \A j \in bad : i <= j
    IN  IF bad # {}
        THEN [raised |-> r(first).raised, vals |-> <<>>]
        ELSE [raised |-> "none",
              vals |-> [k \in {fields[i][1] : i \in 1..Len(fields)} |->
                          r(CHOOSE i \in 1..Len(fields) : fields[i][1] = k).val]]

-----------------------------------------------------------------------------
(* Headers.                                                                *)

BOM == "\\ufeff"

NotBom(p) == p # BOM

(* s.replace(BOM, "") on one header cell: the mark is dropped wherever it is *)
StripBom(h) == SelectSeq(h, NotBom)

(* column_indices[column_name] = index, for index, column_name in          *)
(* enumerate(header_row): a later column of the same name wins.            *)
ColumnIndices(header_row) ==
    LET names == {StripBom(header_row[i]) : i \in 1..Len(header_row)}
    IN  [nm \in names |->
            CHOOSE i \in 1..Len(header_row) :
                /\ StripBom(header_row[i]) = nm
                /\ \A j \in 1..Len(header_row) :
                      StripBom(header_row[j]) = nm => j <= i]

-----------------------------------------------------------------------------
(* The input tables.  Each importer reads its columns by name; the rows    *)
(* of the model hold every column the importer reads.                      *)

Txt == <<"t">>          \* a descriptive text cell
Num == <<"3">>          \* a numeric cell no claim reads
Time == <<"8">>         \* arrival_time, departure_time

Header(cols) == [i \in 1..Len(cols) |-> <<cols[i]>>]
BomHeader(cols) == [i \in 1..Len(cols) |-> IF i = 1 THEN <<BOM, cols[i]>> ELSE <<cols[i]>>]
WithoutLast(q) == SubSeq(q, 1, Len(q) - 1)

(* The files one table is drawn from: the empty file (no header), the      *)
(* header with up to max rows, and around one sample row a header that     *)
(* starts with a byte order mark, a header without its last column and a   *)
(* row cut short by its last cell.                                         *)
TableFiles(cols, rows, max, sample, bom) ==
    {<<>>}
      \cup {<<Header(cols)>> \o r : r \in SeqsUpTo(rows, max)}
      \cup (IF bom THEN {<<BomHeader(cols), sample>>} ELSE {})
      \cup {<<WithoutLast(Header(cols)), sample>>, <<Header(cols), WithoutLast(sample)>>}

AgencyColumns ==
    <<"agency_id", "agency_name", "agency_url", "agency_timezone", "agency_lang",
      "agency_phone">>
AgencyRow(agency_id) == <<agency_id, Txt, Txt, Txt, Txt, Txt>>
AgencyRows == {AgencyRow(a) : a \in {<<"1">>, <<"x">>}}
AgencyFiles ==
    TableFiles(AgencyColumns, AgencyRows, MaxAgencyRows, AgencyRow(<<"1">>), TRUE)

RouteColumns ==
    <<"route_id", "route_short_name", "route_long_name", "route_type", "agency_id">>
RouteRow(route_id, agency_id) == <<route_id, Txt, Txt, Num, agency_id>>
RouteRows == {RouteRow(<<"R", "1">>, <<"1">>), RouteRow(<<"R", "2">>, <<"2">>)}
RouteFiles ==
    TableFiles(RouteColumns, RouteRows, MaxRouteRows, RouteRow(<<"R", "1">>, <<"1">>), FALSE)

TripColumns ==
    <<"route_id", "service_id", "trip_id", "trip_headsign", "wheelchair_accessible",
      "block_id", "direction_id", "exceptional">>
TripRow(trip_id, route_id) == <<route_id, Num, trip_id, Txt, Txt, Txt, Num, Txt>>
TripRows == {TripRow(<<"1">>, <<"R", "1">>), TripRow(<<"x">>, <<"R", "1">>)}
TripFiles ==
    TableFiles(TripColumns, TripRows, MaxTripRows, TripRow(<<"1">>, <<"R", "1">>), FALSE)

StopColumns ==
    <<"stop_id", "stop_name", "stop_lat", "stop_lon", "zone_id", "location_type",
      "parent_station", "wheelchair_boarding", "platform_code">>
StopRow(stop_id, parent_station) ==
    <<stop_id, Txt, Num, Num, Num, Txt, parent_station, Num, Txt>>
StopRows == {StopRow(<<"S", "1">>, <<>>), StopRow(<<"S", "2">>, <<"S", "1">>)}
StopFiles ==
    TableFiles(StopColumns, StopRows, MaxStopRows, StopRow(<<"S", "1">>, <<>>), FALSE)

StopTimeColumns ==
    <<"trip_id", "arrival_time", "departure_time", "stop_id", "stop_sequence",
      "pickup_type", "drop_off_type">>
StopTimeRow(trip_id, stop_id, stop_sequence) ==
    <<trip_id, Time, Time, stop_id, stop_sequence, Txt, Txt>>
StopTimeRows ==
    {StopTimeRow(<<"1">>, <<"S", "1">>, <<"1">>),
     StopTimeRow(<<"1">>, <<"S", "1">>, <<"2">>),
     StopTimeRow(<<"x">>, <<"S", "1">>, <<"1">>)}
StopTimeFiles ==
    TableFiles(StopTimeColumns, StopTimeRows, MaxStopTimeRows,
               StopTimeRow(<<"1">>, <<"S", "1">>, <<"1">>), FALSE)

Tables == {"agency", "routes", "trips", "stops", "stop_times"}

-----------------------------------------------------------------------------
(* The graph store, as the code uses it.                                   *)

None == 0   \* Python's None where a node is expected: no node has identity 0

Declarations ==
    <<"trip_constraint_query", "route_constraint_query", "agency_constraint_query",
      "stop_constraint_query", "trip_index_query", "stop_times_index_query",
      "stop_index_query">>

DeclarationSet == {Declarations[i] : i \in 1..Len(Declarations)}

(* The uniqueness constraint each declaration asks for: label and key.     *)
ConstraintOf(label) ==
    CASE label = "Trip" -> [query |-> "trip_constraint_query", key |-> "trip_id"]
      [] label = "Route" -> [query |-> "route_constraint_query", key |-> "route_id"]
      [] label = "Agency" -> [query |-> "agency_constraint_query", key |-> "agency_id"]
      [] label = "Stop" -> [query |-> "stop_constraint_query", key |-> "stop_id"]
      [] OTHER -> [query |-> "none", key |-> "none"]

(* The store's answer to one CREATE CONSTRAINT / CREATE INDEX: a           *)
(* ClientError when the object exists, the object otherwise.               *)
RunDeclaration(sch, q) ==
    IF sch[q] >= 1 THEN [raised |-> TRUE, schema |-> sch]
    ELSE [raised |-> FALSE, schema |-> [sch EXCEPT ![q] = sch[q] + 1]]

Node(label, props) == [label |-> label, props |-> props]

(* nodes.match(label, key=val): the identities of the matching nodes *)
NodesMatch(ns, label, key, val) ==
    {i \in 1..Len(ns) :
        /\ ns[i].label = label
        /\ key \in DOMAIN ns[i].props
        /\ ns[i].props[key] = val}

(* .first(): one of the matching nodes, None when there is none *)
First(matching) == IF matching = {} THEN {None} ELSE matching

(* client.create(node): the store rejects the node with a ClientError when *)
(* a uniqueness constraint on its label is in force and a node of the      *)
(* label holds the same key.                                               *)
ClientCreate(ns, sch, node) ==
    LET c == ConstraintOf(node.label)
        clash == /\ c.query # "none"
                 /\ sch[c.query] >= 1
                 /\ NodesMatch(ns, node.label, c.key, node.props[c.key]) # {}
    IN  IF clash THEN [raised |-> TRUE, nodes |-> ns]
        ELSE [raised |-> FALSE, nodes |-> Append(ns, node)]

(* create_node: client.create, then node_ctr += 1; an exception of         *)
(* client.create is not handled here.                                      *)
create_node(ns, sch, ctr, node) ==
    LET r == ClientCreate(ns, sch, node)
    IN  IF r.raised THEN [raised |-> TRUE, nodes |-> ns, node_ctr |-> ctr]
        ELSE [raised |-> FALSE, nodes |-> r.nodes, node_ctr |-> ctr + 1]

Edge(from, label, to) == [from |-> from, label |-> label, to |-> to]

(* create_relationship: Relationship(from, name, to) and client.create in  *)
(* one try block that handles every Exception: an endpoint that is None    *)
(* (a lookup that found nothing) makes py2neo raise, the failure is        *)
(* printed and the edge skipped.                                           *)
create_relationship(es, ctr, lg, from_node, relationship_name, to_node) ==
    IF from_node = None \/ to_node = None
    THEN [raised |-> FALSE, edges |-> es, relationship_ctr |-> ctr,
          log |-> Append(lg, "Error: failed to create relationship")]
    ELSE [raised |-> FALSE,
          edges |-> Append(es, Edge(from_node, relationship_name, to_node)),
          relationship_ctr |-> ctr + 1, log |-> lg]

(* A decimal integer literal of Cypher, for a text spliced unquoted into a *)
(* query: any other text of digits and letters is an undefined variable    *)
(* or a syntax error, which the store answers with a ClientError.          *)
CypherInteger(text) ==
    LET ok == IsDigits(text) /\ (Len(text) = 1 \/ text[1] # "0")
    IN  [ok |-> ok, n |-> IF ok THEN DigitsValue(text) ELSE 0]

(* create (t)<-[:PART_OF_TRIP]-(st:Stop_times {...})-[:LOCATED_AT]->(s)    *)
(* once for every matched pair <<t, s>>.                                   *)
RECURSIVE CreatePattern(_, _, _, _)
CreatePattern(ns, es, pairs, props) ==
    IF pairs = {} THEN [raised |-> FALSE, nodes |-> ns, edges |-> es]
    ELSE LET p == CHOOSE x \in pairs :
                     \A y \in pairs : x[1] < y[1] \/ (x[1] = y[1] /\ x[2] <= y[2])
             st == Len(ns) + 1
         IN  CreatePattern(Append(ns, Node("Stop_times", props)),
                           es \o <<Edge(st, "PART_OF_TRIP", p[1]),
                                   Edge(st, "LOCATED_AT", p[2])>>,
                           pairs \ {p}, props)

(* client.run(q) of __import_stop_times: q is the text                     *)
(*   match (t:Trip {trip_id: <trip_id>}), (s:Stop {stop_id: '<stop_id>'})  *)
(*   create (t)<-[:PART_OF_TRIP]-(st:Stop_times {arrival_time: '..',       *)
(*     departure_time: '..', stop_sequence: <stop_sequence>})-[:LOCATED_AT]->(s) *)
(* with trip_id and stop_sequence spliced in unquoted.                     *)
RunStopTimesQuery(ns, es, trip_id, stop_id, arrival_time, departure_time, stop_sequence) ==
    LET t == CypherInteger(trip_id)
        q == CypherInteger(stop_sequence)
    IN  IF ~t.ok \/ ~q.ok THEN [raised |-> TRUE, nodes |-> ns, edges |-> es]
        ELSE CreatePattern(ns, es,
                 NodesMatch(ns, "Trip", "trip_id", IntVal(t.n))
                     \X NodesMatch(ns, "Stop", "stop_id", StrVal(stop_id)),
                 [arrival_time |-> StrVal(arrival_time),
                  departure_time |-> StrVal(departure_time),
                  stop_sequence |-> IntVal(q.n)])

(* s2.stop_sequence = s1.stop_sequence + 1 on two nodes.  Only nodes made  *)
(* by the query above carry a PART_OF_TRIP edge, and their stop_sequence   *)
(* is an integer; a missing property is null and matches nothing.          *)
Successor(n1, n2) ==
    /\ "stop_sequence" \in DOMAIN n1.props /\ "stop_sequence" \in DOMAIN n2.props
    /\ n1.props.stop_sequence.t = "int" /\ n2.props.stop_sequence.t = "int"
    /\ n2.props.stop_sequence.n = n1.props.stop_sequence.n + 1

(* The rows matched by connect_stop_sequences_query, as pairs of           *)
(* PART_OF_TRIP edges that end at the same Trip.                           *)
ConnectMatches(ns, es) ==
    {m \in (1..Len(es)) \X (1..Len(es)) :
        /\ es[m[1]].label = "PART_OF_TRIP" /\ es[m[2]].label = "PART_OF_TRIP"
        /\ es[m[1]].to = es[m[2]].to
        /\ ns[es[m[1]].to].label = "Trip"
        /\ ns[es[m[1]].from].label = "Stop_times"
        /\ ns[es[m[2]].from].label = "Stop_times"
        /\ Successor(ns[es[m[1]].from], ns[es[m[2]].from])}

RECURSIVE CreatePrecedes(_, _, _)
CreatePrecedes(es, all, matches) ==
    IF matches = {} THEN es
    ELSE LET m == CHOOSE x \in matches :
                     \A y \in matches : x[1] < y[1] \/ (x[1] = y[1] /\ x[2] <= y[2])
         IN  CreatePrecedes(Append(es, Edge(all[m[1]].from, "PRECEDES", all[m[2]].from)),
                            all, matches \ {m})

(* client.run(connect_stop_sequences_query): one PRECEDES edge per match *)
RunConnectQuery(ns, es) == CreatePrecedes(es, es, ConnectMatches(ns, es))

-----------------------------------------------------------------------------
(* The importers, one row at a time.  A row operator maps the run's state  *)
(* st (store and counters) to the set of states the row can leave: one     *)
(* state, or one per node .first() may return.  raised names the exception *)
(* that left the importer, with what the row did before it.                *)

Raise(st, type, site) == [st EXCEPT !.raised = type, !.site = site]

AgencyFields ==
    <<<<"agency_id", "int">>, <<"agency_name", "str">>, <<"agency_url", "str">>,
      <<"agency_timezone", "str">>, <<"agency_lang", "str">>, <<"agency_phone", "str">>>>

AgencyNode(v) ==
    Node("Agency",
         [agency_id |-> v["agency_id"], name |-> v["agency_name"],
          url |-> v["agency_url"], timezone |-> v["agency_timezone"],
          agency_lang |-> v["agency_lang"], agency_phone |-> v["agency_phone"]])

(* __import_agencies, the loop body: the node goes to client.create        *)
(* directly, not through create_node.                                      *)
import_agencies(row, ci, sch, st) ==
    LET d == Decode(row, ci, AgencyFields)
    IN  IF d.raised # "none" THEN {Raise(st, d.raised, "get_data")}
        ELSE LET r == ClientCreate(st.nodes, sch, AgencyNode(d.vals))
             IN  IF r.raised THEN {Raise(st, "ClientError", "client.create")}
                 ELSE {[st EXCEPT !.nodes = r.nodes]}

RouteFields ==
    <<<<"route_id", "str">>, <<"route_short_name", "str">>, <<"route_long_name", "str">>,
      <<"route_type", "int">>, <<"agency_id", "int">>>>

RouteNode(v) ==
    Node("Route",
         [route_id |-> v["route_id"], short_name |-> v["route_short_name"],
          long_name |-> v["route_long_name"], type |-> v["route_type"]])

(* A node created, then an edge from the parent .first() found.            *)
NodeWithParent(st, sch, node, label, key, val, relationship_name) ==
    LET r == create_node(st.nodes, sch, st.node_ctr, node)
        made == [st EXCEPT !.nodes = r.nodes, !.node_ctr = r.node_ctr]
    IN  IF r.raised THEN {Raise(st, "ClientError", "create_node")}
        ELSE {LET e == create_relationship(st.edges, st.relationship_ctr, st.log,
                                           parent, relationship_name, Len(r.nodes))
                  linked == [made EXCEPT !.edges = e.edges,
                                         !.relationship_ctr = e.relationship_ctr,
                                         !.log = e.log]
              IN  IF e.raised THEN Raise(linked, "Exception", "create_relationship")
                  ELSE linked
              : parent \in First(NodesMatch(r.nodes, label, key, val))}

(* __import_routes looking the agency up by the route's type *)
import_routes_by_type(row, ci, sch, st) ==
    LET d == Decode(row, ci, RouteFields)
    IN  IF d.raised # "none" THEN {Raise(st, d.raised, "get_data")}
        ELSE NodeWithParent(st, sch, RouteNode(d.vals),
                            "Agency", "agency_id", d.vals["route_type"], "OPERATES")

(* __import_routes, the loop body *)
import_routes(row, ci, sch, st) ==
    LET d == Decode(row, ci, RouteFields)
    IN  IF d.raised # "none" THEN {Raise(st, d.raised, "get_data")}
        ELSE NodeWithParent(st, sch, RouteNode(d.vals),
                            "Agency", "agency_id", d.vals["agency_id"], "OPERATES")

TripFields ==
    <<<<"route_id", "str">>, <<"service_id", "int">>, <<"trip_id", "int">>,
      <<"trip_headsign", "str">>, <<"wheelchair_accessible", "str">>,
      <<"block_id", "str">>, <<"direction_id", "int">>, <<"exceptional", "bool">>>>

TripNode(v) ==
    Node("Trip",
         [trip_id |-> v["trip_id"], route_id |-> v["route_id"],
          service_id |-> v["service_id"], trip_headsing |-> v["trip_headsign"],
          wheelchair_accessible |-> BoolVal(v["wheelchair_accessible"].s # <<>>),
          block_id |-> v["block_id"], direction_id |-> v["direction_id"],
          exceptional |-> v["exceptional"]])

(* __import_trips, the loop body *)
import_trips(row, ci, sch, st) ==
    LET d == Decode(row, ci, TripFields)
    IN  IF d.raised # "none" THEN {Raise(st, d.raised, "get_data")}
        ELSE NodeWithParent(st, sch, TripNode(d.vals),
                            "Route", "route_id", d.vals["route_id"], "USES")

StopFields ==
    <<<<"stop_id", "str">>, <<"stop_name", "str">>, <<"stop_lat", "float">>,
      <<"stop_lon", "float">>, <<"zone_id", "int">>, <<"location_type", "str">>,
      <<"parent_station", "str">>, <<"wheelchair_boarding", "int">>,
      <<"platform_code", "str">>>>

StopNode(v) ==
    Node("Stop",
         [stop_id |-> v["stop_id"], stop_name |-> v["stop_name"],
          stop_lat |-> v["stop_lat"], stop_lon |-> v["stop_lon"],
          zone_id |-> v["zone_id"], location_type |-> v["location_type"],
          parent_station |-> v["parent_station"],
          wheelchair_boarding |-> v["wheelchair_boarding"],
          platform_code |-> v["platform_code"]])

(* __import_stops, the body of the first loop *)
import_stops(row, ci, sch, st) ==
    LET d == Decode(row, ci, StopFields)
        r == create_node(st.nodes, sch, st.node_ctr, StopNode(d.vals))
    IN  IF d.raised # "none" THEN {Raise(st, d.raised, "get_data")}
        ELSE IF r.raised THEN {Raise(st, "ClientError", "create_node")}
        ELSE {[st EXCEPT !.nodes = r.nodes, !.node_ctr = r.node_ctr]}

ParentFields == <<<<"stop_id", "str">>, <<"parent_station", "str">>>>

(* __import_stops, the body of the second loop *)
import_stops_parent(row, ci, st) ==
    LET d == Decode(row, ci, ParentFields)
        current_stop_id == d.vals["stop_id"]
        parent_station == d.vals["parent_station"]
    IN  IF st.raised # "none" THEN {st}
        ELSE IF d.raised # "none" THEN {Raise(st, d.raised, "get_data")}
        ELSE IF parent_station.s # <<>> /\ current_stop_id.s # <<>>
        THEN {LET e == create_relationship(st.edges, st.relationship_ctr, st.log,
                                           child_node, "PART OF", parent_node)
                  linked == [st EXCEPT !.edges = e.edges,
                                       !.relationship_ctr = e.relationship_ctr,
                                       !.log = e.log]
              IN  IF e.raised THEN Raise(linked, "Exception", "create_relationship")
                  ELSE linked
              : parent_node \in First(NodesMatch(st.nodes, "Stop", "stop_id", parent_station)),
                child_node \in First(NodesMatch(st.nodes, "Stop", "stop_id", current_stop_id))}
        ELSE {[st EXCEPT !.log = Append(st.log, "Error: Could not load the parent_station")]}

(* The second loop of __import_stops over the rows its csv_reader still    *)
(* holds.                                                                  *)
RECURSIVE import_stops_second_loop(_, _, _)
import_stops_second_loop(rows, ci, sts) ==
    IF rows = <<>> THEN sts
    ELSE import_stops_second_loop(Tail(rows), ci,
             UNION {import_stops_parent(Head(rows), ci, st) : st \in sts})

StopTimeFields ==
    <<<<"trip_id", "str">>, <<"arrival_time", "str">>, <<"departure_time", "str">>,
      <<"stop_id", "str">>, <<"stop_sequence", "str">>, <<"pickup_type", "str">>,
      <<"drop_off_type", "str">>>>

StopTimeNode(v) ==
    Node("Stop_times",
         [trip_id |-> v["trip_id"], arrival_time |-> v["arrival_time"],
          departure_time |-> v["departure_time"], stop_id |-> v["stop_id"],
          stop_sequence |-> v["stop_sequence"], pickup_type |-> v["pickup_type"],
          drop_odd_type |-> v["drop_off_type"]])

(* __import_stop_times, the loop body: create_node of the row's node, then *)
(* the query that creates a Stop_times node with its two edges.  An        *)
(* exception of client.run is not handled.                                 *)
import_stop_times(row, ci, sch, st) ==
    LET d == Decode(row, ci, StopTimeFields)
        r == create_node(st.nodes, sch, st.node_ctr, StopTimeNode(d.vals))
        made == [st EXCEPT !.nodes = r.nodes, !.node_ctr = r.node_ctr]
        q == RunStopTimesQuery(r.nodes, st.edges, d.vals["trip_id"].s,
                               d.vals["stop_id"].s, d.vals["arrival_time"].s,
                               d.vals["departure_time"].s, d.vals["stop_sequence"].s)
    IN  IF d.raised # "none" THEN {Raise(st, d.raised, "get_data")}
        ELSE IF r.raised THEN {Raise(st, "ClientError", "create_node")}
        ELSE IF q.raised THEN {Raise(made, "ClientError", "client.run")}
        ELSE {[made EXCEPT !.nodes = q.nodes, !.edges = q.edges]}

-----------------------------------------------------------------------------
(* Construction of the uploader.                                           *)

(* __extract_zip: the files of the archive in the fresh temporary          *)
(* directory; a failure is printed and nothing is extracted.               *)
extract_zip(readable, archive) == IF readable THEN archive ELSE {}

(* __validate_gtfs_files_in_dir without its first check *)
validate_without_stop_times(dir) ==
    IF "stops" \notin dir THEN "Could not find stops.txt file. Aborting"
    ELSE IF "trips" \notin dir THEN "Could not find trips.txt file. Aborting"
    ELSE IF "routes" \notin dir THEN "Could not find routes.txt file. Aborting"
    ELSE IF "agency" \notin dir THEN "Could not find agency.txt file. Aborting"
    ELSE "ok"

(* __validate_gtfs_files_in_dir: exit() at the first missing file *)
validate_gtfs_files_in_dir(dir) ==
    IF "stop_times" \notin dir THEN "Could not find stop_times.txt file. Aborting"
    ELSE IF "stops" \notin dir THEN "Could not find stops.txt file. Aborting"
    ELSE IF "trips" \notin dir THEN "Could not find trips.txt file. Aborting"
    ELSE IF "routes" \notin dir THEN "Could not find routes.txt file. Aborting"
    ELSE IF "agency" \notin dir THEN "Could not find agency.txt file. Aborting"
    ELSE "ok"

(* __connect_to_neo4j: exit() when Graph(...) raises *)
connect_to_neo4j(connect_ok) ==
    IF connect_ok THEN "ok" ELSE "Could not connect to the neo4j database"

Archives == {Tables} \cup {Tables \ {f} : f \in Tables}

Environments ==
    {[readable |-> TRUE, archive |-> a, connect_ok |-> c] : a \in Archives, c \in BOOLEAN}
      \cup {[readable |-> FALSE, archive |-> {}, connect_ok |-> c] : c \in BOOLEAN}

NoException == [type |-> "none", site |-> "none"]

(* An Agency left in the store by an earlier import of another feed. *)
EarlierAgency ==
    AgencyNode(Decode(AgencyRow(<<"2">>), ColumnIndices(Header(AgencyColumns)),
                      AgencyFields).vals)

Init ==
    /\ pc = "new"
    /\ exc = NoException
    /\ env \in Environments
    /\ files = [t \in Tables |-> <<>>]
    /\ opened = {}
    /\ pos = 0
    /\ column_indices = <<>>
    /\ decl = 1
    /\ issued = [q \in DeclarationSet |-> 0]
    /\ schema \in [DeclarationSet -> {0, 1}]
    /\ nodes \in {<<>>, <<EarlierAgency>>}
    /\ edges = <<>>
    /\ base = [nodes |-> Len(nodes), edges |-> 0]
    /\ node_ctr = 0
    /\ relationship_ctr = 0
    /\ log = <<>>
    /\ run = 1

(* GNUploader.__init__ *)
Construct ==
    /\ pc = "new"
    /\ LET dir == extract_zip(env.readable, env.archive)
           v == validate_gtfs_files_in_dir(dir)
           c == connect_to_neo4j(env.connect_ok)
       IN  /\ pc' = IF v = "ok" /\ c = "ok" THEN "schema" ELSE "exited"
           /\ exc' = IF v # "ok" THEN [type |-> "SystemExit", site |-> v]
                     ELSE IF c # "ok" THEN [type |-> "SystemExit", site |-> c]
                     ELSE exc
           /\ log' = IF env.readable THEN log
                     ELSE Append(log, "ERROR: Could not extract archive")
    /\ node_ctr' = 0
    /\ relationship_ctr' = 0
    /\ UNCHANGED <<env, files, opened, pos, column_indices, decl, issued, schema,
                   nodes, edges, base, run>>

-----------------------------------------------------------------------------
(* execute()                                                               *)

(* The first declaration is sent with client.schema.run, the other six     *)
(* with client.run.  client.schema is py2neo's Schema object; whether it   *)
(* has a method run is not decided in this repository, and without one     *)
(* the call raises AttributeError, which `except ClientError` lets pass.   *)
SchemaHasRun(i) == IF i = 1 THEN BOOLEAN ELSE {TRUE}

(* __create_constraints_and_indexes, one try block at a time *)
CreateConstraintsAndIndexes ==
    /\ pc = "schema"
    /\ \E has_run \in SchemaHasRun(decl) :
          IF ~has_run
          THEN /\ pc' = "aborted"
               /\ exc' = [type |-> "AttributeError", site |-> "client.schema.run"]
               /\ UNCHANGED <<decl, issued, schema, log>>
          ELSE LET q == Declarations[decl]
                   r == RunDeclaration(schema, q)
               IN  /\ schema' = r.schema
                   /\ issued' = [issued EXCEPT ![q] = issued[q] + 1]
                   /\ log' = IF r.raised THEN Append(log, "constraint or index already exists")
                             ELSE log
                   /\ decl' = decl + 1
                   /\ pc' = IF decl = Len(Declarations) THEN "agencies" ELSE "schema"
                   /\ exc' = exc
    /\ UNCHANGED <<env, files, opened, pos, column_indices, nodes, edges, base,
                   node_ctr, relationship_ctr, run>>

Current ==
    [raised |-> "none", site |-> "none", nodes |-> nodes, edges |-> edges,
     node_ctr |-> node_ctr, relationship_ctr |-> relationship_ctr, log |-> log]

Commit(o) ==
    /\ nodes' = o.nodes
    /\ edges' = o.edges
    /\ node_ctr' = o.node_ctr
    /\ relationship_ctr' = o.relationship_ctr
    /\ log' = o.log

(* a loop that is left after its first record *)
LoopOnce(phase, file, next, n) ==
    pc' = next /\ pos' = IF next = "stops_pass2" THEN n ELSE 0

(* The loop `for row in csv_reader` after n records were consumed: it goes *)
(* on while the file holds more, and the importer returns after it.  The   *)
(* first loop of __import_stops leaves its reader, exhausted, to the       *)
(* second.                                                                 *)
Loop(phase, file, next, n) ==
    IF n < Len(file) THEN pc' = phase /\ pos' = n
    ELSE pc' = next /\ pos' = IF next = "stops_pass2" THEN n ELSE 0

(* open(), csv.reader, next(csv_reader) and the column_indices loop at the *)
(* head of an importer.  The content of a file is fixed when it is first   *)
(* read.  open() of a file that is not there raises FileNotFoundError,     *)
(* next() on a file without a header raises StopIteration.                 *)
Open(phase, table, contents, next) ==
    /\ pc = phase
    /\ pos = 0
    /\ \E f \in (IF table \in opened THEN {files[table]} ELSE contents) :
          /\ files' = [files EXCEPT ![table] = f]
          /\ opened' = opened \cup {table}
          /\ IF table \notin extract_zip(env.readable, env.archive)
             THEN /\ pc' = "aborted"
                  /\ exc' = [type |-> "FileNotFoundError", site |-> "open"]
                  /\ UNCHANGED <<pos, column_indices>>
             ELSE IF f = <<>>
             THEN /\ pc' = "aborted"
                  /\ exc' = [type |-> "StopIteration", site |-> "next(csv_reader)"]
                  /\ UNCHANGED <<pos, column_indices>>
             ELSE /\ column_indices' = ColumnIndices(f[1])
                  /\ exc' = exc
                  /\ Loop(phase, f, next, 1)
    /\ UNCHANGED <<env, decl, issued, schema, nodes, edges, base, node_ctr,
                   relationship_ctr, log, run>>

(* One iteration of an importer's loop, o being what the row left. *)
Row(phase, table, next, o) ==
    /\ Commit(o)
    /\ IF o.raised # "none"
       THEN /\ pc' = "aborted"
            /\ exc' = [type |-> o.raised, site |-> o.site]
            /\ pos' = pos
       ELSE /\ exc' = exc
            /\ Loop(phase, files[table], next, pos + 1)
    /\ UNCHANGED <<env, files, opened, column_indices, decl, issued, schema, base,
                   run>>

Reading(phase, table) == pc = phase /\ pos >= 1 /\ pos < Len(files[table])

OpenAgencies == Open("agencies", "agency", AgencyFiles, "routes")

ImportAgencies ==
    /\ Reading("agencies", "agency")
    /\ \E o \in import_agencies(files["agency"][pos + 1], column_indices, schema, Current) :
          Row("agencies", "agency", "routes", o)

OpenRoutes == Open("routes", "routes", RouteFiles, "trips")

ImportRoutes ==
    /\ Reading("routes", "routes")
    /\ \E o \in import_routes(files["routes"][pos + 1], column_indices, schema, Current) :
          Row("routes", "routes", "trips", o)

OpenTrips == Open("trips", "trips", TripFiles, "stops")

ImportTrips ==
    /\ Reading("trips", "trips")
    /\ \E o \in import_trips(files["trips"][pos + 1], column_indices, schema, Current) :
          Row("trips", "trips", "stops", o)

OpenStops == Open("stops", "stops", StopFiles, "stops_pass2")

ImportStops ==
    /\ Reading("stops", "stops")
    /\ \E o \in import_stops(files["stops"][pos + 1], column_indices, schema, Current) :
          Row("stops", "stops", "stops_pass2", o)

(* The second `for row in csv_reader` of __import_stops, whole. *)
ImportStopsParents ==
    /\ pc = "stops_pass2"
    /\ \E o \in import_stops_second_loop(
                    SubSeq(files["stops"], pos + 1, Len(files["stops"])),
                    column_indices, {Current}) :
          /\ Commit(o)
          /\ IF o.raised # "none"
             THEN /\ pc' = "aborted"
                  /\ exc' = [type |-> o.raised, site |-> o.site]
                  /\ pos' = pos
             ELSE /\ exc' = exc
                  /\ pc' = "stop_times"
                  /\ pos' = 0
    /\ UNCHANGED <<env, files, opened, column_indices, decl, issued, schema, base,
                   run>>

OpenStopTimes == Open("stop_times", "stop_times", StopTimeFiles, "link")

ImportStopTimes ==
    /\ Reading("stop_times", "stop_times")
    /\ \E o \in import_stop_times(files["stop_times"][pos + 1], column_indices, schema,
                                  Current) :
          Row("stop_times", "stop_times", "link", o)

(* __connect_stop_times_sequences and the summary execute() prints after   *)
(* it: node_ctr nodes and relationship_ctr edges.                          *)
ConnectStopTimesSequences ==
    /\ pc = "link"
    /\ edges' = RunConnectQuery(nodes, edges)
    /\ pc' = "done"
    /\ UNCHANGED <<exc, env, files, opened, pos, column_indices, decl, issued, schema,
                   nodes, base, node_ctr, relationship_ctr, log, run>>

Next ==
    \/ Construct
    \/ CreateConstraintsAndIndexes
    \/ OpenAgencies
    \/ ImportAgencies
    \/ OpenRoutes
    \/ ImportRoutes
    \/ OpenTrips
    \/ ImportTrips
    \/ OpenStops
    \/ ImportStops
    \/ ImportStopsParents
    \/ OpenStopTimes
    \/ ImportStopTimes
    \/ ConnectStopTimesSequences

Spec == Init /\ [][Next]_vars

(* The uploader started a second time, as a new process, with the same     *)
(* archive against the store the first, complete run left: a new object    *)
(* with counters at 0, the same files, the store as it is.                 *)
RunAgain ==
    /\ pc = "done"
    /\ run = 1
    /\ run' = 2
    /\ pc' = "new"
    /\ exc' = NoException
    /\ pos' = 0
    /\ column_indices' = <<>>
    /\ decl' = 1
    /\ issued' = [q \in DeclarationSet |-> 0]
    /\ base' = [nodes |-> Len(nodes), edges |-> Len(edges)]
    /\ node_ctr' = 0
    /\ relationship_ctr' = 0
    /\ log' = <<>>
    /\ UNCHANGED <<env, files, opened, schema, nodes, edges>>

NextAgain ==
    \/ Next
    \/ RunAgain

SpecAgain == Init /\ [][NextAgain]_vars

-----------------------------------------------------------------------------
(* What the claims speak of.                                               *)

Created == (base.nodes + 1)..Len(nodes)
CreatedOf(label) == {i \in Created : nodes[i].label = label}
CreatedEdges == (base.edges + 1)..Len(edges)
EdgesOf(label) == {e \in CreatedEdges : edges[e].label = label}

DataRows(table) == Len(files[table]) - 1

(* the cell of a column in data row i of a table that was read *)
Cell(table, i, key) == files[table][i + 1][ColumnIndices(files[table][1])[<<key>>]]

(* the value get_data gives for that cell *)
Value(table, i, key, read_type) == Convert(read_type, Cell(table, i, key)).val

LabelOf(table) ==
    CASE table = "agency" -> "Agency" [] table = "routes" -> "Route"
      [] table = "trips" -> "Trip" [] table = "stops" -> "Stop"
      [] table = "stop_times" -> "Stop_times"

NumericColumns(table) ==
    CASE table = "agency" -> {"agency_id"}
      [] table = "routes" -> {"route_type", "agency_id"}
      [] table = "trips" -> {"service_id", "trip_id", "direction_id"}
      [] table = "stops" -> {"zone_id", "wheelchair_boarding"}
      [] table = "stop_times" -> {"trip_id"}

Rows(table) == 1..DataRows(table)

(* A run that reached the summary read five tables with a header and all   *)
(* columns.  The input is valid when its numeric fields are numeric and    *)
(* every parent key is a key of the parent table.                          *)
ValidInput ==
    /\ \A t \in Tables : \A i \in Rows(t) : \A k \in NumericColumns(t) :
          IsDigits(Cell(t, i, k))
    /\ \A i \in Rows("routes") : \E j \in Rows("agency") :
          Cell("agency", j, "agency_id") = Cell("routes", i, "agency_id")
    /\ \A i \in Rows("trips") : \E j \in Rows("routes") :
          Cell("routes", j, "route_id") = Cell("trips", i, "route_id")
    /\ \A i \in Rows("stops") :
          \/ Cell("stops", i, "parent_station") = <<>>
          \/ \E j \in Rows("stops") :
                Cell("stops", j, "stop_id") = Cell("stops", i, "parent_station")
    /\ \A i \in Rows("stop_times") :
          /\ \E j \in Rows("trips") :
                Cell("trips", j, "trip_id") = Cell("stop_times", i, "trip_id")
          /\ \E j \in Rows("stops") :
                Cell("stops", j, "stop_id") = Cell("stop_times", i, "stop_id")

(* C1: after execute() completes on a valid input, each label has as many  *)
(* nodes created by the run as its table has data rows.                    *)
C1_OneNodePerRow ==
    (pc = "done" /\ ValidInput) =>
        \A t \in Tables : Cardinality(CreatedOf(LabelOf(t))) = DataRows(t)

(* C2: a node or edge creation the store rejects never ends execute().     *)
C2_RejectionNeverTerminates == ~(pc = "aborted" /\ exc.type = "ClientError")

(* C3: get_data never raises: no exception leaves it.                      *)
C3_GetDataNeverRaises == ~(pc = "aborted" /\ exc.site = "get_data")

FieldsOf(table) ==
    CASE table = "agency" -> AgencyFields [] table = "routes" -> RouteFields
      [] table = "trips" -> TripFields [] table = "stops" -> StopFields
      [] table = "stop_times" -> StopTimeFields

TableOf(phase) ==
    CASE phase = "agencies" -> "agency" [] phase = "routes" -> "routes"
      [] phase = "trips" -> "trips" [] phase = "stops" -> "stops"
      [] phase = "stop_times" -> "stop_times" [] OTHER -> "none"

(* The importer is about to process a row all of whose columns can be read *)
(* and that holds a text that is no number in a declared-numeric column.   *)
NonNumericRowNext ==
    /\ TableOf(pc) # "none"
    /\ Reading(pc, TableOf(pc))
    /\ Decode(files[TableOf(pc)][pos + 1], column_indices, FieldsOf(TableOf(pc))).raised = "none"
    /\ \E k \in NumericColumns(TableOf(pc)) : ~IsDigits(Cell(TableOf(pc), pos, k))

(* C4: a row with a non-numeric value in a declared-numeric column does    *)
(* not abort the import, its node is created with the raw text as the      *)
(* fallback value of that field, and the node counter counts the node.     *)
C4_NonNumericRowImported ==
    [][NonNumericRowNext =>
          /\ pc' # "aborted"
          /\ Len(nodes') > Len(nodes)
          /\ nodes'[Len(nodes) + 1].label = LabelOf(TableOf(pc))
          /\ \A k \in NumericColumns(TableOf(pc)) :
                ~IsDigits(Cell(TableOf(pc), pos, k)) =>
                    \E f \in DOMAIN nodes'[Len(nodes) + 1].props :
                        nodes'[Len(nodes) + 1].props[f] = StrVal(Cell(TableOf(pc), pos, k))
          /\ node_ctr' = node_ctr + 1]_vars

AfterRoutes == {"trips", "stops", "stops_pass2", "stop_times", "link", "done"}

(* the data rows of routes.txt processed so far *)
RoutesDone ==
    IF pc = "routes" THEN pos - 1
    ELSE IF pc \in AfterRoutes THEN DataRows("routes")
    ELSE 0

(* the Route nodes the run created from data row i of routes.txt *)
RouteNodesOf(i) ==
    {r \in CreatedOf("Route") : nodes[r].props.route_id = Value("routes", i, "route_id", "str")}

OperatesTo(r) == {e \in 1..Len(edges) : edges[e].label = "OPERATES" /\ edges[e].to = r}

(* the Agency nodes of the store that hold the agency_id of routes row i *)
AgenciesOfRoute(i) ==
    NodesMatch(nodes, "Agency", "agency_id", Value("routes", i, "agency_id", "int"))

AgencyInTable(i) ==
    \E j \in Rows("agency") :
        Value("agency", j, "agency_id", "int") = Value("routes", i, "agency_id", "int")

(* C5 as stated: for every routes row processed, its Route node exists,    *)
(* and an OPERATES edge to it exists iff an agency with the same agency_id *)
(* is in the agency table, its source then being an Agency with that       *)
(* agency_id; a missing agency never ends the run.                         *)
C5_OperatesIffAgencyInTable ==
    /\ \A i \in 1..RoutesDone :
          /\ RouteNodesOf(i) # {}
          /\ \A r \in RouteNodesOf(i) :
                /\ OperatesTo(r) # {} <=> AgencyInTable(i)
                /\ \A e \in OperatesTo(r) : edges[e].from \in AgenciesOfRoute(i)
    /\ ~(pc = "aborted" /\ exc.site = "create_relationship")

(* C5 amended: for every routes row processed, its Route node exists, and  *)
(* an OPERATES edge to it exists iff an Agency node with the same          *)
(* agency_id is in the store (imported from the agency table by this run   *)
(* or there before it), its source then being such an Agency; a missing    *)
(* agency never ends the run.                                              *)
C5_OperatesIffAgencyInStore ==
    /\ \A i \in 1..RoutesDone :
          /\ RouteNodesOf(i) # {}
          /\ \A r \in RouteNodesOf(i) :
                /\ OperatesTo(r) # {} <=> AgenciesOfRoute(i) # {}
                /\ \A e \in OperatesTo(r) : edges[e].from \in AgenciesOfRoute(i)
    /\ ~(pc = "aborted" /\ exc.site = "create_relationship")

(* a Route of the run operated by an Agency of the run's own table, and a  *)
(* run that went on after it                                               *)
C5_Witness ==
    /\ pc \in AfterRoutes
    /\ \E i \in 1..RoutesDone : \E r \in RouteNodesOf(i) :
          \E e \in OperatesTo(r) : edges[e].from \in Created

StopTimeNodes == {i \in 1..Len(nodes) : nodes[i].label = "Stop_times"}

(* the number a text or integer value stands for *)
NumberOf(v) == IF v.t = "int" THEN v.n ELSE DigitsValue(v.s)

IsNumber(v) == v.t = "int" \/ (v.t = "str" /\ IsDigits(v.s))

(* The trips a Stop_times node belongs to, by trip_id: the trip_id it      *)
(* holds, and the Trip nodes its PART_OF_TRIP edges lead to.               *)
TripsOf(i) ==
    (IF "trip_id" \in DOMAIN nodes[i].props /\ IsNumber(nodes[i].props.trip_id)
        THEN {NumberOf(nodes[i].props.trip_id)} ELSE {})
      \cup {NumberOf(nodes[edges[e].to].props.trip_id) :
              e \in {x \in 1..Len(edges) : /\ edges[x].label = "PART_OF_TRIP"
                                           /\ edges[x].from = i
                                           /\ nodes[edges[x].to].label = "Trip"
                                           /\ IsNumber(nodes[edges[x].to].props.trip_id)}}

SequenceOf(i) == NumberOf(nodes[i].props.stop_sequence)

PrecedesEdges(a, b) ==
    {e \in 1..Len(edges) : edges[e].label = "PRECEDES" /\ edges[e].from = a /\ edges[e].to = b}

(* no two stop_times rows of one trip share a stop_sequence *)
DistinctSequences ==
    \A i, j \in Rows("stop_times") :
        (/\ i # j
         /\ Cell("stop_times", i, "trip_id") = Cell("stop_times", j, "trip_id"))
            => Cell("stop_times", i, "stop_sequence") # Cell("stop_times", j, "stop_sequence")

TripNumbers == UNION {TripsOf(i) : i \in StopTimeNodes}

NodesOfTrip(tr) == {i \in StopTimeNodes : tr \in TripsOf(i)}

Contiguous(tr) ==
    \A a, b \in NodesOfTrip(tr) : \A q \in SequenceOf(a)..SequenceOf(b) :
        \E c \in NodesOfTrip(tr) : SequenceOf(c) = q

(* C6: after a complete run on a valid input without a repeated            *)
(* stop_sequence in a trip, a PRECEDES edge a -> b exists exactly when a and b are       *)
(* Stop_times nodes of one trip with stop_sequence(b) = stop_sequence(a)   *)
(* + 1, and in a trip with contiguous stop_sequence values the edges are   *)
(* one simple path over all the trip's Stop_times nodes: one node per      *)
(* stop_sequence and one edge per consecutive pair.                        *)
C6_PrecedesIsThePath ==
    (pc = "done" /\ ValidInput /\ DistinctSequences) =>
        /\ \A a, b \in StopTimeNodes :
              PrecedesEdges(a, b) # {} <=>
                  /\ TripsOf(a) \cap TripsOf(b) # {}
                  /\ SequenceOf(b) = SequenceOf(a) + 1
        /\ \A tr \in TripNumbers : Contiguous(tr) =>
              \A a, b \in NodesOfTrip(tr) :
                  /\ a # b => SequenceOf(a) # SequenceOf(b)
                  /\ SequenceOf(b) = SequenceOf(a) + 1 =>
                        Cardinality(PrecedesEdges(a, b)) = 1

(* a startup condition the code treats as fatal *)
FatalStartup == ~env.readable \/ env.archive # Tables \/ ~env.connect_ok

C8_CountersMatchStore ==
    /\ node_ctr = Len(nodes) - base.nodes
    /\ relationship_ctr = Len(edges) - base.edges

AfterSchema ==
    {"agencies", "routes", "trips", "stops", "stops_pass2", "stop_times", "link",
     "done", "aborted"}

(* C9: each of the seven declarations is issued once per run, whatever the *)
(* store holds already: once the run has left construction and the         *)
(* initializer, all seven were issued, and no constraint or index exists   *)
(* twice.                                                                  *)
C9_SevenDeclarationsOnce ==
    /\ \A q \in DeclarationSet : issued[q] <= 1 /\ schema[q] <= 1
    /\ pc \in AfterSchema => \A q \in DeclarationSet : issued[q] = 1

(* the end-to-end input of the specification *)
EndToEndInput ==
    files = [agency |-> <<Header(AgencyColumns), AgencyRow(<<"1">>)>>,
             routes |-> <<Header(RouteColumns), RouteRow(<<"R", "1">>, <<"1">>)>>,
             trips |-> <<Header(TripColumns), TripRow(<<"1">>, <<"R", "1">>)>>,
             stops |-> <<Header(StopColumns), StopRow(<<"S", "1">>, <<>>)>>,
             stop_times |-> <<Header(StopTimeColumns),
                              StopTimeRow(<<"1">>, <<"S", "1">>, <<"1">>),
                              StopTimeRow(<<"1">>, <<"S", "1">>, <<"2">>)>>]

EdgesBetween(label, from_label, from_key, from_val, to_label, to_key, to_val) ==
    {e \in EdgesOf(label) :
        /\ edges[e].from \in NodesMatch(nodes, from_label, from_key, from_val)
        /\ edges[e].to \in NodesMatch(nodes, to_label, to_key, to_val)}

OutEdges(i, label) == {e \in EdgesOf(label) : edges[e].from = i}

(* C10: on the end-to-end input the run produces 5 nodes (by the count it  *)
(* reports or by the nodes it created), OPERATES Agency(1) -> Route(R1),   *)
(* USES Route(R1) -> Trip(1), two Stop_times nodes with a PART_OF_TRIP and *)
(* a LOCATED_AT edge each, and one PRECEDES edge between the two.          *)
C10_EndToEnd ==
    (pc = "done" /\ EndToEndInput) =>
        /\ node_ctr = 5 \/ Cardinality(Created) = 5
        /\ EdgesBetween("OPERATES", "Agency", "agency_id", IntVal(1),
                        "Route", "route_id", StrVal(<<"R", "1">>)) # {}
        /\ EdgesBetween("USES", "Route", "route_id", StrVal(<<"R", "1">>),
                        "Trip", "trip_id", IntVal(1)) # {}
        /\ Cardinality(CreatedOf("Stop_times")) = 2
        /\ \A i \in CreatedOf("Stop_times") :
              /\ Cardinality(OutEdges(i, "PART_OF_TRIP")) = 1
              /\ Cardinality(OutEdges(i, "LOCATED_AT")) = 1
        /\ Cardinality(EdgesOf("PRECEDES")) = 1
        /\ \A e \in EdgesOf("PRECEDES") :
              /\ edges[e].from \in CreatedOf("Stop_times")
              /\ edges[e].to \in CreatedOf("Stop_times")
              /\ edges[e].from # edges[e].to

(* C11: a second run with the same feed against the store a first complete *)
(* run left creates no node and no edge: at every point of the second run  *)
(* the store holds the nodes and edges it held when that run started.      *)
C11_SecondRunAddsNothing ==
    run = 2 => Len(nodes) = base.nodes /\ Len(edges) = base.edges

PhaseOrder ==
    <<"new", "schema", "agencies", "routes", "trips", "stops", "stops_pass2",
      "stop_times", "link", "done">>

PhaseIndex(p) == CHOOSE k \in DOMAIN PhaseOrder : PhaseOrder[k] = p

Started == {p \in {PhaseOrder[k] : k \in DOMAIN PhaseOrder} : pc = p}

(* the table an importer phase reads; the second loop of __import_stops    *)
(* belongs to the Stop phase                                               *)
PhaseTable(p) == IF p = "stops_pass2" THEN "stops" ELSE TableOf(p)

(* the phase that creates the nodes of a parent table was left for the     *)
(* next one, with a node created for each of its rows                      *)
Completed(t) ==
    /\ t \in opened
    /\ \E p \in Started : \E k \in DOMAIN PhaseOrder :
          /\ PhaseTable(PhaseOrder[k]) = t
          /\ PhaseIndex(p) > k
          /\ PhaseTable(p) # t
    /\ Cardinality(CreatedOf(LabelOf(t))) = DataRows(t)

(* the parent tables whose nodes the phase looks up by business key *)
ParentsOf(p) ==
    CASE p = "routes" -> {"agency"}
      [] p = "trips" -> {"routes"}
      [] p = "stop_times" -> {"trips", "stops"}
      [] OTHER -> {}

(* a step that leaves a phase goes to the next one of PhaseOrder, or ends  *)
(* the process                                                             *)
InOrder ==
    pc' # pc =>
        \/ pc' \in {"aborted", "exited"}
        \/ /\ pc \in Started
           /\ PhaseIndex(pc) < Len(PhaseOrder)
           /\ pc' = PhaseOrder[PhaseIndex(pc) + 1]

(* a step from an importer phase to the next phase consumed the last       *)
(* record of the phase's file                                              *)
AllRowsFirst ==
    (pc' # pc /\ pc' \notin {"aborted", "exited"} /\ TableOf(pc) # "none") =>
        pos + 1 = Len(files'[TableOf(pc)])

(* C12: execute() runs the phases in the order Schema Initializer, Agency, *)
(* Route, Trip, Stop, StopTime, Sequence Linker; a phase is left for the   *)
(* next only when all records of its file were consumed; and while a phase *)
(* that looks a parent up is running, the phase of that parent has         *)
(* completed, with a node for every row of the parent table.               *)
C12_PhasesInOrder ==
    /\ [][InOrder /\ AllRowsFirst]_vars
    /\ [](\A t \in ParentsOf(pc) : Completed(t))

(* the linker ran after five phases that each imported rows, with lookups  *)
(* that found their parents                                                *)
C12_Witness ==
    /\ pc = "done"
    /\ \A t \in Tables : DataRows(t) >= 1
    /\ DataRows("agency") = 2
    /\ \A l \in {"OPERATES", "USES", "PART_OF_TRIP", "LOCATED_AT"} : EdgesOf(l) # {}

(* C13: no Stop_times node is edge-less: once the rows of a valid input    *)
(* were processed, every Stop_times node the run created has a             *)
(* PART_OF_TRIP edge to a Trip and a LOCATED_AT edge to a Stop.            *)
C13_NoEdgelessStopTime ==
    (pc \in {"link", "done"} /\ ValidInput) =>
        \A i \in CreatedOf("Stop_times") :
            /\ \E e \in OutEdges(i, "PART_OF_TRIP") : nodes[edges[e].to].label = "Trip"
            /\ \E e \in OutEdges(i, "LOCATED_AT") : nodes[edges[e].to].label = "Stop"

AfterStops == {"stop_times", "link", "done"}

(* the edges of the run from the Stop of one stop_id to the Stop of        *)
(* another that say the first is part of the second, under the label of    *)
(* the specification or the label of the code                              *)
PartOfEdges(child, parent) ==
    EdgesBetween("PART_OF", "Stop", "stop_id", StrVal(child),
                 "Stop", "stop_id", StrVal(parent))
      \cup EdgesBetween("PART OF", "Stop", "stop_id", StrVal(child),
                        "Stop", "stop_id", StrVal(parent))

(* C14: after the Stop phase, every stops row whose parent_station is the  *)
(* stop_id of a Stop of the table has a PART_OF edge from its Stop to the  *)
(* parent Stop, and a row with an empty parent_station has no such edge.   *)
C14_ParentStationLinked ==
    pc \in AfterStops =>
        \A i \in Rows("stops") :
            LET child == Cell("stops", i, "stop_id")
                parent == Cell("stops", i, "parent_station")
            IN  /\ (\E j \in Rows("stops") : Cell("stops", j, "stop_id") = parent)
                      => PartOfEdges(child, parent) # {}
                /\ parent = <<>> =>
                      \A j \in Rows("stops") :
                          PartOfEdges(child, Cell("stops", j, "stop_id")) = {}

====
